---- MODULE Spec2Model ----
(***************************************************************************)
(* MetaMan: the project mirror (services/server_sync.py) and the           *)
(* server-path annotation of a session's file inventory (main.py,          *)
(* MainWindow._copy_to_server).                                            *)
(*                                                                         *)
(* Paths are strings with POSIX separators, as os.path builds them.  A     *)
(* file's content is a string of blocks: one character stands for          *)
(* BlockBytes bytes, so sizes are multiples of BlockBytes and one read of  *)
(* COPY_CHUNK_BYTES returns up to ChunkBlocks characters.                  *)
(***************************************************************************)
EXTENDS Integers, Sequences, FiniteSets, TLC

VARIABLES
  fs,                     \* the filesystem: path -> entry
  log,                    \* the lines handed to the log sink, in order
  runs,                   \* the background workers started by _copy_to_server
  faults,                 \* transient I/O failures the environment may still inject
  settings,               \* AppSettings: raw_root, server_roots_by_project
  current_project,        \* AppState.current_project
  current_session_path,   \* AppState.current_session_path
  store,                  \* the metadata record store: session dir -> record
  rec_tab                 \* RecordingTab: the record it holds (meta) and ed_root

vars == <<fs, log, runs, faults, settings, current_project, current_session_path,
          store, rec_tab>>

-----------------------------------------------------------------------------
(* Bounds of the model *)

MaxRuns == 2        \* copy requests in one behaviour
MaxFaults == 1      \* transient I/O failures in one behaviour
MaxClicks == 1      \* sessions loaded from the navigation tree in one behaviour
PathMax == 24       \* the longest path the filesystem takes (PATH_MAX, scaled)

BlockBytes == 2 * 1024 * 1024
COPY_CHUNK_BYTES == 4 * 1024 * 1024
ChunkBlocks == COPY_CHUNK_BYTES \div BlockBytes

-----------------------------------------------------------------------------
(* Strings.  An operator that uses its argument more than once binds it     *)
(* first, in the form [x \in {s} |-> ...][s]: an argument is an expression,  *)
(* evaluated afresh at every use.                                           *)

Char(s, i) == SubSeq(s, i, i)

StartsWith(s, p) == Len(p) <= Len(s) /\ SubSeq(s, 1, Len(p)) = p

EndsWith(s, p) == Len(p) <= Len(s) /\ SubSeq(s, Len(s) - Len(p) + 1, Len(s)) = p

Min(a, b) == IF a <= b THEN a ELSE b

\* str.replace(old, new), old non-empty: every non-overlapping occurrence of
\* old, scanning from the left, wherever it stands in s.
RECURSIVE ReplaceFrom(_, _, _, _)
ReplaceFrom(s, old, new, i) ==
  IF i > Len(s) THEN ""
  ELSE IF i + Len(old) - 1 <= Len(s) /\ SubSeq(s, i, i + Len(old) - 1) = old
       THEN new \o ReplaceFrom(s, old, new, i + Len(old))
       ELSE Char(s, i) \o ReplaceFrom(s, old, new, i + 1)

StrReplace(s, old, new) == ReplaceFrom(s, old, new, 1)

\* str.rstrip("/\\")
RStripSep(s) ==
  [x \in {s} |->
     SubSeq(x, 1, Cardinality({i \in 1..Len(x) :
                                \E j \in i..Len(x) : Char(x, j) \notin {"/", "\\"}}))][s]

\* str.rstrip("/")
RStripSlash(s) ==
  [x \in {s} |->
     SubSeq(x, 1, Cardinality({i \in 1..Len(x) :
                                \E j \in i..Len(x) : Char(x, j) # "/"}))][s]

\* s.rfind("/") + 1
LastSlash(s) ==
  [x \in {s} |->
     Cardinality({i \in 1..Len(x) : \E j \in i..Len(x) : Char(x, j) = "/"})][s]

\* posixpath.join(a, b)
Join(a, b) ==
  [x \in {a} |->
     [y \in {b} |->
        IF StartsWith(y, "/") THEN y
        ELSE IF x = "" \/ EndsWith(x, "/") THEN x \o y
        ELSE x \o "/" \o y][b]][a]

\* posixpath.basename
Basename(p) == [x \in {p} |-> SubSeq(x, LastSlash(x) + 1, Len(x))][p]

\* posixpath.dirname
Dirname(p) ==
  [head \in {SubSeq(p, 1, LastSlash(p))} |->
     [cut \in {RStripSlash(head)} |->
        IF cut = "" THEN head ELSE cut][RStripSlash(head)]][SubSeq(p, 1, LastSlash(p))]

\* posixpath.relpath(p, start) for absolute, normalised p at or below start
\* (the only use the mirror makes of it).
Relpath(p, start) ==
  [x \in {p} |->
     IF x = start THEN "."
     ELSE SubSeq(x, Len(RStripSlash(start)) + 2, Len(x))][p]

\* What the kernel resolves a path string to: repeated and trailing slashes
\* do not count.
RECURSIVE CollapseFrom(_, _)
CollapseFrom(p, i) ==
  IF i > Len(p) THEN ""
  ELSE IF i < Len(p) /\ Char(p, i) = "/" /\ Char(p, i + 1) = "/"
       THEN CollapseFrom(p, i + 1)
       ELSE Char(p, i) \o CollapseFrom(p, i + 1)

Resolve(p) ==
  [c \in {CollapseFrom(p, 1)} |->
     IF Len(c) > 1 /\ EndsWith(c, "/") THEN SubSeq(c, 1, Len(c) - 1)
     ELSE c][CollapseFrom(p, 1)]

-----------------------------------------------------------------------------
(* The filesystem.  The root directory "/" always exists and is not listed  *)
(* in fs.  A "link" is a dangling symbolic link: os.walk lists it among the *)
(* files, and stat and open fail on it.  A directory lists its entries in   *)
(* the order of their ino, which is the filesystem's and no one else's.     *)
(* mtime is the modification time of a file, "old" for what the instrument  *)
(* wrote and "now" for what is written during the behaviour.                *)

DirEntry ==
  [kind |-> "dir", data |-> "", readable |-> TRUE, ino |-> 0, mtime |-> "old"]
LockedDir == [DirEntry EXCEPT !.readable = FALSE]
FileEntry(d) ==
  [kind |-> "file", data |-> d, readable |-> TRUE, ino |-> 0, mtime |-> "old"]
LinkEntry ==
  [kind |-> "link", data |-> "", readable |-> TRUE, ino |-> 0, mtime |-> "old"]

\* the file open(p, "wb") leaves: empty, written now
NewFile == [FileEntry("") EXCEPT !.mtime = "now"]

\* the entry as the i-th of its directory's listing
At(e, i) == [e EXCEPT !.ino = i]

StatError == -1
DirBytes == 4 * 1024

\* os.path.exists
Exists(f, p) ==
  [x \in {p} |->
     IF x \in DOMAIN f THEN f[x].kind # "link"
     ELSE [q \in {Resolve(x)} |->
             q = "/" \/ (q \in DOMAIN f /\ f[q].kind # "link")][Resolve(x)]][p]

\* os.path.isdir
IsDir(f, p) ==
  [x \in {p} |->
     IF x \in DOMAIN f THEN f[x].kind = "dir"
     ELSE [q \in {Resolve(x)} |->
             q = "/" \/ (q \in DOMAIN f /\ f[q].kind = "dir")][Resolve(x)]][p]

IsFile(f, p) == [x \in {p} |-> x \in DOMAIN f /\ f[x].kind = "file"][p]

\* os.path.getsize; StatError stands for the OSError it raises
GetSize(f, p) ==
  [x \in {p} |->
     IF ~Exists(f, x) THEN StatError
     ELSE IF IsDir(f, x) THEN DirBytes
     ELSE Len(f[x].data) * BlockBytes][p]

\* p and the directories above it, below "/"
Ancestors(p) ==
  [x \in {p} |->
     {SubSeq(x, 1, i - 1) : i \in {j \in 2..Len(x) : Char(x, j) = "/"}} \cup {x}][p]

\* the kernel takes the path: longer ones fail with ENAMETOOLONG
PathOk(p) == Len(p) <= PathMax

\* os.makedirs(p, exist_ok=True) raises when p or a directory above it is
\* there and is no directory, and when the path is too long.
MakedirsOk(f, p) ==
  [x \in {p} |->
     /\ PathOk(x)
     /\ \A a \in Ancestors(x) : a \in DOMAIN f => f[a].kind = "dir"][p]

Makedirs(f, p) ==
  [above \in {Ancestors(p)} |->
     [q \in DOMAIN f \cup above |->
        IF q \in DOMAIN f THEN f[q] ELSE DirEntry]][Ancestors(p)]

\* _ensure_dir over a set of paths
\* mutant of lines 49-51: the walk creates no directory
MakedirsAll_None(f, ps) == f

MakedirsAll(f, ps) ==
  [q \in DOMAIN f \cup UNION {Ancestors(p) : p \in ps} |->
     IF q \in DOMAIN f THEN f[q] ELSE DirEntry]

\* the entries of directory d
Children(f, d) == {p \in DOMAIN f : p # d /\ Dirname(p) = d}

\* paths in listing order
Listed(f, ps) ==
  CHOOSE seq \in [1..Cardinality(ps) -> ps] :
    \A i, j \in DOMAIN seq :
      i < j => (seq[i] # seq[j] /\ f[seq[i]].ino <= f[seq[j]].ino)

\* os.scandir(d), directories and the rest apart as os.walk sorts them
ListDirs(f, d) == Listed(f, {k \in Children(f, d) : f[k].kind = "dir"})
ListFiles(f, d) == Listed(f, {k \in Children(f, d) : f[k].kind # "dir"})

Names(paths) == [i \in DOMAIN paths |-> Basename(paths[i])]
Range(seq) == {seq[i] : i \in DOMAIN seq}

\* fdst.write(chunk) at block offset off: a write past the end leaves a hole
\* of zero blocks.
RECURSIVE Zeros(_)
Zeros(n) == IF n <= 0 THEN "" ELSE "0" \o Zeros(n - 1)

WriteAt(data, off, chunk) ==
  LET padded == IF Len(data) < off THEN data \o Zeros(off - Len(data)) ELSE data
  IN SubSeq(padded, 1, off) \o chunk
     \o SubSeq(padded, off + Len(chunk) + 1, Len(padded))

\* fsrc.read(COPY_CHUNK_BYTES) at block offset off
ReadChunk(data, off) == SubSeq(data, off + 1, Min(off + ChunkBlocks, Len(data)))

-----------------------------------------------------------------------------
(* services/server_sync.py *)

\* mutants of _needs_copy: no comparison of sizes; a failed stat taken for
\* "nothing to do"
NeedsCopy_Always(dstExists, srcSize, dstSize) == TRUE

NeedsCopy_ExceptFalse(dstExists, srcSize, dstSize) ==
  IF ~dstExists THEN TRUE
  ELSE IF srcSize = StatError \/ dstSize = StatError THEN FALSE
  ELSE srcSize # dstSize

\* _needs_copy, over what its three system calls return
NeedsCopy(dstExists, srcSize, dstSize) ==
  IF ~dstExists THEN TRUE
  ELSE IF srcSize = StatError \/ dstSize = StatError THEN TRUE
  ELSE srcSize # dstSize

NoRet == [performed |-> FALSE, bps |-> "none"]

\* bytes / elapsed seconds: zero exactly when no byte was copied
Rate(bytes) == IF bytes = 0 THEN "zero" ELSE "positive"

NoMeta == [Project |-> "", Animal |-> "", Session |-> "", Comments |-> "",
           file_list |-> <<>>]

IdleRun ==
  [pc |-> "idle", proj |-> "", project_dir |-> "", server_dir |-> "",
   dst_project |-> "", stack |-> <<>>, root |-> "", dst_dir |-> "", files |-> <<>>,
   src |-> "", dst |-> "", total |-> 0, copied |-> 0, chunks |-> <<>>,
   nc |-> <<>>, ret |-> NoRet, outcomes |-> <<>>, sess_path |-> "",
   session_dir |-> "",
   server_session |-> "", loaded |-> NoMeta, meta |-> NoMeta,
   fs0 |-> <<>>, fault |-> <<>>,
   asked |-> [session_path |-> "", raw_root |-> "", busy |-> {}]]

Line(r, kind, name, copied, total) ==
  [run |-> r, kind |-> kind, name |-> name, copied |-> copied, total |-> total]

Active(r) == runs[r].pc \notin {"idle", "done", "failed"}

\* the exception leaves sync_project_to_server and work: the worker ends
Raise(run) == [run EXCEPT !.pc = "failed"]

LinesOf(r) == SelectSeq(log, LAMBDA l : l.run = r)

\* history: run r is struck by a transient failure of the environment, at
\* this file and after this many log lines of its own
Struck(r, kind) ==
  [runs[r] EXCEPT !.fault =
     <<[kind |-> kind, src |-> runs[r].src, lines |-> Len(LinesOf(r))]>>]

\* sync_project_to_server, lines 43-46: the destination project directory
\* and the start of os.walk
SyncStart(r) ==
  LET run == runs[r]
      project_name == Basename(RStripSep(run.project_dir))
      dst_project == Join(run.server_dir, project_name)
  IN /\ run.pc = "sync"
     /\ IF MakedirsOk(fs, dst_project)
        THEN /\ fs' = Makedirs(fs, dst_project)
             /\ runs' = [runs EXCEPT ![r] =
                  [run EXCEPT !.pc = "walk", !.dst_project = dst_project,
                              !.stack = <<run.project_dir>>]]
        ELSE /\ fs' = fs
             /\ runs' = [runs EXCEPT ![r] = Raise(run)]
     /\ UNCHANGED <<log, faults, settings, current_project, current_session_path,
                    store, rec_tab>>

\* mutant of os.walk: a directory that cannot be listed is tried again
WalkDir_Retries(r) ==
  /\ runs[r].pc = "walk"
  /\ runs[r].stack # <<>>
  /\ \E run \in {runs[r]} :
     \E d \in {Head(run.stack)} :
     \E dirs \in {ListDirs(fs, d)}, listed \in {ListFiles(fs, d)},
        rel \in {Relpath(d, run.project_dir)} :
     \E files \in {Names(listed)} :
     \E dst_dir \in {IF rel # "." THEN Join(run.dst_project, rel)
                     ELSE run.dst_project} :
     \E made \in {{dst_dir} \cup {Join(dst_dir, Basename(k)) : k \in Range(dirs)}} :
     /\ IF ~(IsDir(fs, d) /\ fs[d].readable)
        THEN /\ fs' = fs
             /\ runs' = runs
        ELSE IF \E m \in made : ~MakedirsOk(fs, m)
        THEN /\ fs' = fs
             /\ runs' = [runs EXCEPT ![r] = Raise(run)]
        ELSE /\ fs' = MakedirsAll(fs, made)
             /\ runs' = [runs EXCEPT ![r] =
                  [run EXCEPT !.stack = dirs \o Tail(run.stack), !.root = d,
                              !.dst_dir = dst_dir, !.files = files,
                              !.pc = IF files = <<>> THEN "walk" ELSE "files"]]
  /\ UNCHANGED <<log, faults, settings, current_project, current_session_path,
                 store, rec_tab>>

\* mutant of lines 49-51: what the destination directory holds without a
\* counterpart in the source directory is removed
WalkDir_Prunes(r) ==
  /\ runs[r].pc = "walk"
  /\ runs[r].stack # <<>>
  /\ \E run \in {runs[r]} :
     \E d \in {Head(run.stack)} :
     \E dirs \in {ListDirs(fs, d)}, listed \in {ListFiles(fs, d)},
        rel \in {Relpath(d, run.project_dir)} :
     \E files \in {Names(listed)} :
     \E dst_dir \in {IF rel # "." THEN Join(run.dst_project, rel)
                     ELSE run.dst_project} :
     \E made \in {{dst_dir} \cup {Join(dst_dir, Basename(k)) : k \in Range(dirs)}} :
     /\ IF ~(IsDir(fs, d) /\ fs[d].readable)
        THEN /\ fs' = fs
             /\ runs' = [runs EXCEPT ![r] = [run EXCEPT !.stack = Tail(run.stack)]]
        ELSE IF \E m \in made : ~MakedirsOk(fs, m)
        THEN /\ fs' = fs
             /\ runs' = [runs EXCEPT ![r] = Raise(run)]
        ELSE /\ fs' = [q \in {k \in DOMAIN MakedirsAll(fs, made) :
                               StartsWith(k, dst_dir \o "/") =>
                                 Join(d, Relpath(k, dst_dir)) \in DOMAIN fs} |->
                         MakedirsAll(fs, made)[q]]
             /\ runs' = [runs EXCEPT ![r] =
                  [run EXCEPT !.stack = dirs \o Tail(run.stack), !.root = d,
                              !.dst_dir = dst_dir, !.files = files,
                              !.pc = IF files = <<>> THEN "walk" ELSE "files"]]
  /\ UNCHANGED <<log, faults, settings, current_project, current_session_path,
                 store, rec_tab>>

\* os.walk yields the next directory (top-down; a directory is listed when it
\* is reached; a directory that cannot be listed is passed over in silence),
\* and the loop body up to line 51 creates its counterpart and those of its
\* subdirectories.
WalkDir(r) ==
  /\ runs[r].pc = "walk"
  /\ runs[r].stack # <<>>
  /\ \E run \in {runs[r]} :
     \E d \in {Head(run.stack)} :
     \E dirs \in {ListDirs(fs, d)}, listed \in {ListFiles(fs, d)},
        rel \in {Relpath(d, run.project_dir)} :
     \E files \in {Names(listed)} :
     \E dst_dir \in {IF rel # "." THEN Join(run.dst_project, rel)
                     ELSE run.dst_project} :
     \E made \in {{dst_dir} \cup {Join(dst_dir, Basename(k)) : k \in Range(dirs)}} :
     /\ IF ~(IsDir(fs, d) /\ fs[d].readable)
        THEN /\ fs' = fs
             /\ runs' = [runs EXCEPT ![r] = [run EXCEPT !.stack = Tail(run.stack)]]
        ELSE IF \E m \in made : ~MakedirsOk(fs, m)
        THEN /\ fs' = fs
             /\ runs' = [runs EXCEPT ![r] = Raise(run)]
        ELSE /\ fs' = MakedirsAll(fs, made)
             /\ runs' = [runs EXCEPT ![r] =
                  [run EXCEPT !.stack = dirs \o Tail(run.stack), !.root = d,
                              !.dst_dir = dst_dir, !.files = files,
                              !.pc = IF files = <<>> THEN "walk" ELSE "files"]]
  /\ UNCHANGED <<log, faults, settings, current_project, current_session_path,
                 store, rec_tab>>

\* line 20: the result of copy_with_progress when nothing is copied
SkipResult == [performed |-> FALSE, bps |-> "zero"]

\* lines 56-59: the summary line of a file, chosen by the result
Summary(r, run, ret) ==
  Line(r, IF ret.performed THEN "copied" ELSE "already",
       Relpath(run.dst, run.server_dir), 0, 0)

\* the loop of line 52 moves on after the summary line of its file; outcomes
\* is the history of what copy_with_progress returned, file by file (asked,
\* in the same way, is what was current when the copy was requested, and
\* which workers were running then)
NextFile(run, ret) ==
  [run EXCEPT !.files = Tail(run.files), !.ret = ret,
              !.outcomes = Append(@, [src |-> run.src, dst |-> run.dst,
                                      performed |-> ret.performed]),
              !.pc = IF Tail(run.files) = <<>> THEN "walk" ELSE "files"]

\* One file of the loop of line 52, up to the decision of copy_with_progress
\* (lines 18-21).  srcSize and dstSize are what the two getsize calls of
\* _needs_copy return; run is the worker, with its history.
Decide(r, run, srcSize, dstSize) ==
  /\ run.pc = "files"
  /\ \E f \in {Head(run.files)} :
     \E src \in {Join(run.root, f)}, dst \in {Join(run.dst_dir, f)} :
     \E dstExists \in {Exists(fs, dst)} :
     \E need \in {NeedsCopy(dstExists, srcSize, dstSize)} :
     \E seen \in {[run EXCEPT !.src = src, !.dst = dst, !.copied = 0, !.total = 0,
                              !.chunks = <<>>, !.ret = NoRet,
                              !.nc = <<[exists |-> dstExists, src |-> srcSize,
                                        dst |-> dstSize, need |-> need,
                                        before |-> IF IsFile(fs, dst)
                                                   THEN fs[dst].data
                                                   ELSE "absent"]>>]} :
     /\ IF ~MakedirsOk(fs, Dirname(dst))
        THEN /\ runs' = [runs EXCEPT ![r] = Raise(seen)]
             /\ UNCHANGED <<fs, log>>
        ELSE IF ~need
        THEN /\ runs' = [runs EXCEPT ![r] = NextFile(seen, SkipResult)]
             /\ log' = Append(log, Summary(r, seen, SkipResult))
             /\ fs' = Makedirs(fs, Dirname(dst))
        ELSE IF GetSize(fs, src) = StatError
        THEN /\ runs' = [runs EXCEPT ![r] = Raise(seen)]
             /\ fs' = Makedirs(fs, Dirname(dst))
             /\ UNCHANGED log
        ELSE /\ runs' = [runs EXCEPT ![r] =
                  [seen EXCEPT !.total = GetSize(fs, src), !.pc = "open"]]
             /\ fs' = Makedirs(fs, Dirname(dst))
             /\ UNCHANGED log
  /\ UNCHANGED <<settings, current_project, current_session_path, store, rec_tab>>

SrcOf(r) == Join(runs[r].root, Head(runs[r].files))
DstOf(r) == Join(runs[r].dst_dir, Head(runs[r].files))

CheckFile(r) ==
  /\ runs[r].pc = "files"
  /\ \E run \in {runs[r]}, srcSize \in {GetSize(fs, SrcOf(r))},
        dstSize \in {GetSize(fs, DstOf(r))} :
       Decide(r, run, srcSize, dstSize)
  /\ UNCHANGED faults

\* the same with a getsize of _needs_copy failing for once on a path that is
\* there (a share that does not answer); the file struck is the one examined
CheckFileStatFails(r, which) ==
  /\ runs[r].pc = "files"
  /\ faults > 0
  /\ Exists(fs, SrcOf(r))
  /\ Exists(fs, DstOf(r))
  /\ \E run \in {[Struck(r, "stat") EXCEPT !.fault[1].src = SrcOf(r)]},
        srcSize \in {GetSize(fs, SrcOf(r))}, dstSize \in {GetSize(fs, DstOf(r))} :
       IF which = "src"
       THEN Decide(r, run, StatError, dstSize)
       ELSE Decide(r, run, srcSize, StatError)
  /\ faults' = faults - 1

\* mutant of line 24: the destination is given the source's size at once
OpenFiles_Preallocates(r) ==
  LET run == runs[r]
  IN /\ run.pc = "open"
     /\ IF IsFile(fs, run.src) /\ ~IsDir(fs, run.dst) /\ PathOk(run.dst)
        THEN /\ fs' = [q \in DOMAIN fs \cup {run.dst} |->
                         IF q = run.dst
                         THEN [NewFile EXCEPT !.data = Zeros(run.total \div BlockBytes)]
                         ELSE fs[q]]
             /\ runs' = [runs EXCEPT ![r] = [run EXCEPT !.pc = "copy"]]
        ELSE /\ fs' = fs
             /\ runs' = [runs EXCEPT ![r] = Raise(run)]
     /\ UNCHANGED <<log, faults, settings, current_project, current_session_path,
                    store, rec_tab>>

\* mutant of line 24: the destination opened without truncation ("r+b")
OpenFiles_NoTruncate(r) ==
  LET run == runs[r]
  IN /\ run.pc = "open"
     /\ IF IsFile(fs, run.src) /\ ~IsDir(fs, run.dst) /\ PathOk(run.dst)
        THEN /\ fs' = [q \in DOMAIN fs \cup {run.dst} |->
                         IF q \in DOMAIN fs THEN fs[q] ELSE NewFile]
             /\ runs' = [runs EXCEPT ![r] = [run EXCEPT !.pc = "copy"]]
        ELSE /\ fs' = fs
             /\ runs' = [runs EXCEPT ![r] = Raise(run)]
     /\ UNCHANGED <<log, faults, settings, current_project, current_session_path,
                    store, rec_tab>>

\* line 24: both files are opened; "wb" creates the destination or cuts it
\* to zero length
OpenFiles(r) ==
  LET run == runs[r]
  IN /\ run.pc = "open"
     /\ IF IsFile(fs, run.src) /\ ~IsDir(fs, run.dst) /\ PathOk(run.dst)
        THEN /\ fs' = [q \in DOMAIN fs \cup {run.dst} |->
                         IF q = run.dst THEN NewFile ELSE fs[q]]
             /\ runs' = [runs EXCEPT ![r] = [run EXCEPT !.pc = "copy"]]
        ELSE /\ fs' = fs
             /\ runs' = [runs EXCEPT ![r] = Raise(run)]
     /\ UNCHANGED <<log, faults, settings, current_project, current_session_path,
                    store, rec_tab>>

\* mutant of line 30: copied = len(chunk), the count of the last chunk alone
CopyChunk_LastChunkOnly(r) ==
  LET run == runs[r]
      off == run.copied \div BlockBytes
      chunk == ReadChunk(fs[run.src].data, off)
      copied == run.copied + Len(chunk) * BlockBytes
  IN /\ run.pc = "copy"
     /\ chunk # ""
     /\ fs' = [fs EXCEPT ![run.dst].data = WriteAt(@, off, chunk),
                         ![run.dst].mtime = "now"]
     /\ runs' = [runs EXCEPT ![r] =
          [run EXCEPT !.copied = copied, !.chunks = Append(@, chunk)]]
     /\ log' = Append(log, Line(r, "progress", Basename(run.src),
                                Len(chunk) * BlockBytes, run.total))
     /\ UNCHANGED <<faults, settings, current_project, current_session_path, store,
                    rec_tab>>

\* mutant of lines 31-33: no progress line after a chunk
CopyChunk_Quiet(r) ==
  LET run == runs[r]
      off == run.copied \div BlockBytes
      chunk == ReadChunk(fs[run.src].data, off)
      copied == run.copied + Len(chunk) * BlockBytes
  IN /\ run.pc = "copy"
     /\ chunk # ""
     /\ fs' = [fs EXCEPT ![run.dst].data = WriteAt(@, off, chunk),
                         ![run.dst].mtime = "now"]
     /\ runs' = [runs EXCEPT ![r] =
          [run EXCEPT !.copied = copied, !.chunks = Append(@, chunk)]]
     /\ UNCHANGED <<log, faults, settings, current_project, current_session_path,
                    store, rec_tab>>

\* lines 26-33 with a chunk read: it is written where the last one ended and
\* a progress line follows
CopyChunk(r) ==
  LET run == runs[r]
      off == run.copied \div BlockBytes
      chunk == ReadChunk(fs[run.src].data, off)
      copied == run.copied + Len(chunk) * BlockBytes
  IN /\ run.pc = "copy"
     /\ chunk # ""
     /\ fs' = [fs EXCEPT ![run.dst].data = WriteAt(@, off, chunk),
                         ![run.dst].mtime = "now"]
     /\ runs' = [runs EXCEPT ![r] =
          [run EXCEPT !.copied = copied, !.chunks = Append(@, chunk)]]
     /\ log' = Append(log, Line(r, "progress", Basename(run.src), copied, run.total))
     /\ UNCHANGED <<faults, settings, current_project, current_session_path, store,
                    rec_tab>>

\* lines 27-28 and 34-40, then lines 56-59 of the caller: the read returns
\* nothing, the files are closed, shutil.copystat gives the destination the
\* source's times and mode, the result is (True, bps) and the summary line is
\* logged
CopyDone(r) ==
  LET run == runs[r]
      off == run.copied \div BlockBytes
      ret == [performed |-> TRUE, bps |-> Rate(run.copied)]
  IN /\ run.pc = "copy"
     /\ ReadChunk(fs[run.src].data, off) = ""
     /\ fs' = [fs EXCEPT ![run.dst].mtime = fs[run.src].mtime]
     /\ runs' = [runs EXCEPT ![r] = NextFile(run, ret)]
     /\ log' = Append(log, Summary(r, run, ret))
     /\ UNCHANGED <<faults, settings, current_project, current_session_path,
                    store, rec_tab>>

\* mutant of lines 34-38: no try around shutil.copystat
CopyStatFails_Raises(r) ==
  /\ runs[r].pc = "copy"
  /\ ReadChunk(fs[runs[r].src].data, runs[r].copied \div BlockBytes) = ""
  /\ faults > 0
  /\ faults' = faults - 1
  /\ runs' = [runs EXCEPT ![r] = Raise(Struck(r, "copystat"))]
  /\ UNCHANGED <<fs, log, settings, current_project, current_session_path, store,
                 rec_tab>>

\* the same with shutil.copystat raising (lines 36-38): the exception is
\* dropped, the destination keeps the times of its writing, and the call
\* ends as it does otherwise
CopyStatFails(r) ==
  LET run == Struck(r, "copystat")
      ret == [performed |-> TRUE, bps |-> Rate(run.copied)]
  IN /\ run.pc = "copy"
     /\ ReadChunk(fs[run.src].data, run.copied \div BlockBytes) = ""
     /\ faults > 0
     /\ faults' = faults - 1
     /\ runs' = [runs EXCEPT ![r] = NextFile(run, ret)]
     /\ log' = Append(log, Summary(r, run, ret))
     /\ UNCHANGED <<fs, settings, current_project, current_session_path, store,
                    rec_tab>>

\* mutant of the loop of line 52: the failure of one file is caught and the
\* loop goes on with the next file
IOFails_Caught(r) ==
  /\ runs[r].pc \in {"open", "copy"}
  /\ faults > 0
  /\ faults' = faults - 1
  /\ runs' = [runs EXCEPT ![r] = NextFile(Struck(r, "io"), SkipResult)]
  /\ UNCHANGED <<fs, log, settings, current_project, current_session_path, store,
                 rec_tab>>

\* open, read or write raises OSError: nothing more is written, the with
\* statement closes what was opened, the exception leaves the run
IOFails(r) ==
  /\ runs[r].pc \in {"open", "copy"}
  /\ faults > 0
  /\ faults' = faults - 1
  /\ runs' = [runs EXCEPT ![r] = Raise(Struck(r, "io"))]
  /\ UNCHANGED <<fs, log, settings, current_project, current_session_path, store,
                 rec_tab>>

-----------------------------------------------------------------------------
(* The metadata record store (io_ops): one record per session directory *)

Absent == "<absent>"         \* an inventory record without the key server_path

LoadSessionMetadata(st, sess_path) ==
  IF sess_path \in DOMAIN st THEN st[sess_path] ELSE NoMeta

SaveSessionTriplet(st, sess_path, meta) ==
  [q \in DOMAIN st \cup {sess_path} |-> IF q = sess_path THEN meta ELSE st[q]]

-----------------------------------------------------------------------------
(* main.py, MainWindow._copy_to_server *)

\* lines 87-88 for one inventory record
ServerPathOf(f, path, session_dir, server_session) ==
  LET spath == StrReplace(path, session_dir, server_session)
  IN IF Exists(f, spath) THEN spath ELSE ""

\* mutant of line 88: a record is left as it is when nothing is found on the
\* server
Annotate_KeepsOld(f, file_list, session_dir, server_session) ==
  [i \in DOMAIN file_list |->
     LET found == ServerPathOf(f, file_list[i].path, session_dir, server_session)
     IN IF found = "" THEN file_list[i]
        ELSE [file_list[i] EXCEPT !.server_path = found]]

\* mutant of lines 86-88: only the records found on the server are kept
Annotate_OnlyFound(f, file_list, session_dir, server_session) ==
  SelectSeq([i \in DOMAIN file_list |->
               [file_list[i] EXCEPT
                  !.server_path = ServerPathOf(f, file_list[i].path, session_dir,
                                               server_session)]],
            LAMBDA item : item.server_path # "")

\* the loop of lines 86-88 over meta["file_list"]
Annotate(f, file_list, session_dir, server_session) ==
  [i \in DOMAIN file_list |->
     [file_list[i] EXCEPT
        !.server_path = ServerPathOf(f, file_list[i].path, session_dir, server_session)]]

\* mutant of lines 74-75: the closing line and the load do not wait for
\* sync_project_to_server to return
LoadMeta_Early(r) ==
  LET run == runs[r]
      sess_path == current_session_path
      meta == LoadSessionMetadata(store, sess_path)
      server_project == Join(run.server_dir, run.proj)
      session_dir == Join(Join(Join(settings.raw_root, run.proj), meta.Animal),
                          meta.Session)
      server_session == Join(Join(server_project, meta.Animal), meta.Session)
  IN /\ run.pc = "walk"
     /\ log' = Append(log, Line(r, "finished", "", 0, 0))
     /\ runs' = [runs EXCEPT ![r] =
          IF sess_path = ""
          THEN [run EXCEPT !.pc = "done"]
          ELSE [run EXCEPT !.pc = "reconcile", !.sess_path = sess_path,
                           !.loaded = meta, !.meta = meta,
                           !.session_dir = session_dir,
                           !.server_session = server_session]]
     /\ UNCHANGED <<fs, faults, settings, current_project, current_session_path,
                    store, rec_tab>>

\* work, lines 75-85: the walk has returned; the closing line, the session
\* that is current now, its record, and the two session directories
LoadMeta(r) ==
  LET run == runs[r]
      sess_path == current_session_path
      meta == LoadSessionMetadata(store, sess_path)
      server_project == Join(run.server_dir, run.proj)
      session_dir == Join(Join(Join(settings.raw_root, run.proj), meta.Animal),
                          meta.Session)
      server_session == Join(Join(server_project, meta.Animal), meta.Session)
  IN /\ run.pc = "walk"
     /\ run.stack = <<>>
     /\ log' = Append(log, Line(r, "finished", "", 0, 0))
     /\ runs' = [runs EXCEPT ![r] =
          IF sess_path = ""
          THEN [run EXCEPT !.pc = "done"]
          ELSE [run EXCEPT !.pc = "reconcile", !.sess_path = sess_path,
                           !.loaded = meta, !.meta = meta,
                           !.session_dir = session_dir,
                           !.server_session = server_session]]
     /\ UNCHANGED <<fs, faults, settings, current_project, current_session_path,
                    store, rec_tab>>

\* mutant of lines 86-88: the annotated records are built apart and dropped
Reconcile_Discards(r) ==
  /\ runs[r].pc = "reconcile"
  /\ runs' = [runs EXCEPT ![r] = [runs[r] EXCEPT !.pc = "save"]]
  /\ UNCHANGED <<fs, log, faults, settings, current_project,
                 current_session_path, store, rec_tab>>

\* mutant of lines 86-88: every annotation is written to the store at once
Reconcile_WritesThrough(r) ==
  LET run == runs[r]
      meta == [run.meta EXCEPT !.file_list =
                 Annotate(fs, @, run.session_dir, run.server_session)]
  IN /\ run.pc = "reconcile"
     /\ runs' = [runs EXCEPT ![r] = [run EXCEPT !.pc = "save", !.meta = meta]]
     /\ store' = SaveSessionTriplet(store, run.sess_path, meta)
     /\ UNCHANGED <<fs, log, faults, settings, current_project,
                    current_session_path, rec_tab>>

\* work, lines 86-88: every record of the loaded inventory is annotated in
\* the loaded record itself
Reconcile(r) ==
  LET run == runs[r]
  IN /\ run.pc = "reconcile"
     /\ runs' = [runs EXCEPT ![r] =
          [run EXCEPT !.pc = "save",
                      !.meta.file_list = Annotate(fs, @, run.session_dir,
                                                  run.server_session)]]
     /\ UNCHANGED <<fs, log, faults, settings, current_project,
                    current_session_path, store, rec_tab>>

\* work, line 89
SaveMeta(r) ==
  LET run == runs[r]
  IN /\ run.pc = "save"
     /\ store' = SaveSessionTriplet(store, run.sess_path, run.meta)
     /\ runs' = [runs EXCEPT ![r] = [run EXCEPT !.pc = "done"]]
     /\ UNCHANGED <<fs, log, faults, settings, current_project,
                    current_session_path, rec_tab>>

\* RecordingTab.load_session, lines 178-189: what the tab holds once it has
\* loaded the record of a session (a record without RootDir shows the raw
\* root in the root field)
Loaded(st, session_dir, raw_root) ==
  [meta |-> LoadSessionMetadata(st, session_dir), ed_root |-> raw_root]

\* mutant of _copy_to_server: the button does nothing while a copy is running
CopyToServer_Exclusive(r, server_dir) ==
  LET proj == current_project
      project_dir == Join(settings.raw_root, proj)
  IN /\ runs[r].pc = "idle"
     /\ \A q \in DOMAIN runs : ~Active(q)
     /\ proj # ""
     /\ IsDir(fs, project_dir)
     /\ server_dir # ""
     /\ IsDir(fs, server_dir)
     /\ settings' = [settings EXCEPT !.server_roots_by_project =
          [q \in DOMAIN @ \cup {proj} |-> IF q = proj THEN server_dir ELSE @[q]]]
     /\ runs' = [runs EXCEPT ![r] =
          [IdleRun EXCEPT !.pc = "sync", !.proj = proj, !.fs0 = fs,
                          !.project_dir = project_dir, !.server_dir = server_dir,
                          !.asked = [session_path |-> current_session_path,
                                     raw_root |-> settings.raw_root,
                                     busy |-> {q \in DOMAIN runs : Active(q)}]]]
     /\ UNCHANGED <<fs, log, faults, current_project, current_session_path, store,
                    rec_tab>>

\* _copy_to_server, lines 52-73 and 91, with server_dir the directory the
\* dialog returns: the request is checked, the server root is remembered and
\* work is handed to a new worker
CopyToServer(r, server_dir) ==
  LET proj == current_project
      project_dir == Join(settings.raw_root, proj)
  IN /\ runs[r].pc = "idle"
     /\ proj # ""
     /\ IsDir(fs, project_dir)
     /\ server_dir # ""
     /\ IsDir(fs, server_dir)
     /\ settings' = [settings EXCEPT !.server_roots_by_project =
          [q \in DOMAIN @ \cup {proj} |-> IF q = proj THEN server_dir ELSE @[q]]]
     /\ runs' = [runs EXCEPT ![r] =
          [IdleRun EXCEPT !.pc = "sync", !.proj = proj, !.fs0 = fs,
                          !.project_dir = project_dir, !.server_dir = server_dir,
                          !.asked = [session_path |-> current_session_path,
                                     raw_root |-> settings.raw_root,
                                     busy |-> {q \in DOMAIN runs : Active(q)}]]]
     /\ UNCHANGED <<fs, log, faults, current_project, current_session_path, store,
                    rec_tab>>

\* RecordingTab._choose_root: another raw root is chosen and shown in the
\* root field; the current project and session stay what they are
ChooseRoot(d) ==
  /\ d # ""
  /\ IsDir(fs, d)
  /\ settings' = [settings EXCEPT !.raw_root = d]
  /\ rec_tab' = [rec_tab EXCEPT !.ed_root = d]
  /\ UNCHANGED <<fs, log, runs, faults, current_project, current_session_path,
                 store>>

\* the session directory the recording tab saves to (_session_dir, line 169)
SessionDirOf(tab) ==
  Join(Join(Join(tab.ed_root, tab.meta.Project), tab.meta.Animal), tab.meta.Session)

\* NavigationTab._load_selected_session (lines 559-573) with the session node
\* at path selected, MainWindow._load_session_everywhere and
\* RecordingTab.load_session (lines 177-198): the session becomes the current
\* one, the recording tab holds its record, and the tab logs the load
LoadSelectedSession(path) ==
  /\ path \in DOMAIN store
  /\ current_project' = LoadSessionMetadata(store, path).Project
  /\ current_session_path' = path
  /\ rec_tab' = Loaded(store, path, settings.raw_root)
  /\ log' = Append(log, Line(0, "loaded", path, 0, 0))
  /\ UNCHANGED <<fs, runs, faults, settings, store>>

\* RecordingTab._save_comments (lines 259-262): the comment field goes into
\* the record the tab holds, and that record is saved
SaveComments(text) ==
  /\ rec_tab' = [rec_tab EXCEPT !.meta.Comments = text]
  /\ store' = SaveSessionTriplet(store, SessionDirOf(rec_tab), rec_tab'.meta)
  /\ UNCHANGED <<fs, log, runs, faults, settings, current_project,
                 current_session_path>>

\* RecordingTab._save_all (lines 264-266): the record the tab holds is saved
SaveAll ==
  /\ store' = SaveSessionTriplet(store, SessionDirOf(rec_tab), rec_tab.meta)
  /\ UNCHANGED <<fs, log, runs, faults, settings, current_project,
                 current_session_path, rec_tab>>

-----------------------------------------------------------------------------
(* The mirror, one copy request at a time *)

RunIds == 1..MaxRuns
ServerRoots == {"/srv", "/srv2"}

\* the raw root with project P, animal A, session S
SourceBase ==
  "/r" :> DirEntry @@ "/r/P" :> DirEntry
  @@ "/r/P/n" :> At(FileEntry("d"), 1)
  @@ "/r/P/A" :> At(DirEntry, 2) @@ "/r/P/A/S" :> DirEntry
  @@ "/r/P/A/S/f" :> At(FileEntry("abc"), 1)
  @@ "/r/P/A/S/g" :> At(FileEntry(""), 2)

SourceTrees ==
  { SourceBase @@ "/r/P/E" :> At(DirEntry, 3),
    SourceBase @@ "/r/P/E" :> At(LockedDir, 1) @@ "/r/P/E/h" :> FileEntry("d"),
    SourceBase @@ "/r/P/E" :> At(DirEntry, 1) @@ "/r/P/E/l" :> LinkEntry }

\* what the first server root holds before the first request
ServerBase ==
  "/srv" :> DirEntry @@ "/srv/P" :> DirEntry @@ "/srv/P/A" :> DirEntry
  @@ "/srv/P/A/S" :> DirEntry

ServerTrees ==
  { "/srv" :> DirEntry,
    ServerBase @@ "/srv/P/A/S/f" :> FileEntry("xyz"),
    ServerBase @@ "/srv/P/A/S/f" :> FileEntry("vwxyz") }

Record(path, blocks) ==
  [path |-> path, size |-> blocks * BlockBytes, server_path |-> Absent]

SessionS ==
  [Project |-> "P", Animal |-> "A", Session |-> "S", Comments |-> "",
   file_list |-> <<Record("/r/P/A/S/f", 3), Record("/r/P/A/S/g", 0)>>]

\* the same tree on a filesystem that lists every directory the other way
Reversed(tree) == [p \in DOMAIN tree |-> [tree[p] EXCEPT !.ino = 9 - @]]

Init ==
  /\ \E src \in SourceTrees \cup {Reversed(t) : t \in SourceTrees},
        srv \in ServerTrees :
       fs = src @@ srv @@ "/srv2" :> DirEntry
  /\ log = <<>>
  /\ runs = [r \in RunIds |-> IdleRun]
  /\ faults = MaxFaults
  /\ settings = [raw_root |-> "/r", server_roots_by_project |-> <<>>]
  /\ current_project = "P"
  /\ current_session_path = "/r/P/A/S"
  /\ store = "/r/P/A/S" :> SessionS
  /\ rec_tab = Loaded(store, "/r/P/A/S", "/r")

NextRun(r) == runs[r].pc = "idle" /\ \A q \in RunIds : q < r => runs[q].pc # "idle"

\* the copy button, pressed while no copy is in progress
Request ==
  \E r \in RunIds, server_dir \in {"/srv"} :
    /\ NextRun(r)
    /\ \A q \in RunIds : ~Active(q)
    /\ CopyToServer(r, server_dir)

Next ==
  \/ Request
  \/ \E r \in RunIds : SyncStart(r)
  \/ \E r \in RunIds : WalkDir(r)
  \/ \E r \in RunIds : CheckFile(r)
  \/ \E r \in RunIds, which \in {"src", "dst"} : CheckFileStatFails(r, which)
  \/ \E r \in RunIds : OpenFiles(r)
  \/ \E r \in RunIds : CopyChunk(r)
  \/ \E r \in RunIds : CopyDone(r)
  \/ \E r \in RunIds : CopyStatFails(r)
  \/ \E r \in RunIds : IOFails(r)
  \/ \E r \in RunIds : LoadMeta(r)
  \/ \E r \in RunIds : Reconcile(r)
  \/ \E r \in RunIds : SaveMeta(r)

Spec == Init /\ [][Next]_vars

-----------------------------------------------------------------------------
(* The annotation of the inventory: two raw roots that both hold a project  *)
(* P, two server roots, and a session whose directory holds a copy of its   *)
(* own absolute path (a backup made with its parents).                      *)

RawRoots == {"/r", "/q"}

ReconcileTree ==
  "/r" :> DirEntry @@ "/r/P" :> DirEntry @@ "/r/P/A" :> DirEntry
  @@ "/r/P/A/S" :> DirEntry
  @@ "/r/P/A/S/f" :> At(FileEntry("ab"), 1)
  @@ "/r/P/A/S/r" :> At(DirEntry, 2) @@ "/r/P/A/S/r/P" :> DirEntry
  @@ "/r/P/A/S/r/P/A" :> DirEntry @@ "/r/P/A/S/r/P/A/S" :> DirEntry
  @@ "/r/P/A/S/r/P/A/S/k" :> FileEntry("c")
  @@ "/q" :> DirEntry @@ "/q/P" :> DirEntry @@ "/q/P/m" :> FileEntry("e")
  @@ "/srv" :> DirEntry @@ "/srv/P" :> DirEntry @@ "/srv/P/A" :> DirEntry
  @@ "/srv/P/A/S" :> DirEntry @@ "/srv/P/A/S/gone" :> FileEntry("z")
  @@ "/srv2" :> DirEntry

\* the inventory of session S: a file, the file of the nested copy, a file
\* deleted since it was mirrored, and a record from another machine
Inventory ==
  <<Record("/r/P/A/S/f", 2), Record("/r/P/A/S/r/P/A/S/k", 1),
    Record("/r/P/A/S/gone", 1), Record("/old/P/A/S/f", 2)>>

\* the same inventory as an earlier copy to a server root of then left it
Annotated(file_list) ==
  [i \in DOMAIN file_list |->
     [file_list[i] EXCEPT !.server_path = IF i = 1 THEN "/mnt/P/A/S/f" ELSE ""]]

InitReconcile ==
  /\ fs = ReconcileTree
  /\ log = <<>>
  /\ runs = [r \in RunIds |-> IdleRun]
  /\ faults = 0
  /\ settings = [raw_root |-> "/r", server_roots_by_project |-> <<>>]
  /\ current_project = "P"
  /\ current_session_path = "/r/P/A/S"
  /\ \E inv \in {Inventory, Annotated(Inventory)} :
       store = "/r/P/A/S" :> [SessionS EXCEPT !.file_list = inv]
  /\ rec_tab = Loaded(store, "/r/P/A/S", "/r")

\* the copy button, pressed while no copy is in progress, and any of the
\* server roots chosen in the dialog
RequestAny ==
  \E r \in RunIds, server_dir \in ServerRoots :
    /\ NextRun(r)
    /\ \A q \in RunIds : ~Active(q)
    /\ CopyToServer(r, server_dir)

\* the raw root changed while no copy is in progress
ChangeRoot ==
  \E d \in RawRoots :
    /\ \A q \in RunIds : ~Active(q)
    /\ d # settings.raw_root
    /\ ChooseRoot(d)

NextReconcile ==
  \/ RequestAny
  \/ ChangeRoot
  \/ \E r \in RunIds : SyncStart(r)
  \/ \E r \in RunIds : WalkDir(r)
  \/ \E r \in RunIds : CheckFile(r)
  \/ \E r \in RunIds : OpenFiles(r)
  \/ \E r \in RunIds : CopyChunk(r)
  \/ \E r \in RunIds : CopyDone(r)
  \/ \E r \in RunIds : LoadMeta(r)
  \/ \E r \in RunIds : Reconcile(r)
  \/ \E r \in RunIds : SaveMeta(r)

SpecReconcile == InitReconcile /\ [][NextReconcile]_vars

-----------------------------------------------------------------------------
(* The worker under a fair scheduler.  Besides the trees above there is one *)
(* whose project directory holds the server root chosen in the dialog.      *)

NestedTree ==
  "/r" :> DirEntry @@ "/r/P" :> DirEntry
  @@ "/r/P/n" :> At(FileEntry("d"), 1)
  @@ "/r/P/s" :> At(DirEntry, 2)

InitLive ==
  /\ \E src \in SourceTrees \cup {NestedTree} : fs = src @@ "/srv" :> DirEntry
  /\ log = <<>>
  /\ runs = [r \in RunIds |-> IdleRun]
  /\ faults = MaxFaults
  /\ settings = [raw_root |-> "/r", server_roots_by_project |-> <<>>]
  /\ current_project = "P"
  /\ current_session_path = "/r/P/A/S"
  /\ store = "/r/P/A/S" :> SessionS
  /\ rec_tab = Loaded(store, "/r/P/A/S", "/r")

\* the copy button with a server root outside or inside the project
RequestLive ==
  \E r \in RunIds, server_dir \in {"/srv", "/r/P/s"} :
    /\ NextRun(r)
    /\ \A q \in RunIds : ~Active(q)
    /\ CopyToServer(r, server_dir)

\* the steps the thread of run r takes by itself
Worker(r) ==
  \/ SyncStart(r)
  \/ WalkDir(r)
  \/ CheckFile(r)
  \/ OpenFiles(r)
  \/ CopyChunk(r)
  \/ CopyDone(r)
  \/ LoadMeta(r)
  \/ Reconcile(r)
  \/ SaveMeta(r)

NextLive ==
  \/ RequestLive
  \/ \E r \in RunIds : Worker(r)
  \/ \E r \in RunIds, which \in {"src", "dst"} : CheckFileStatFails(r, which)
  \/ \E r \in RunIds : CopyStatFails(r)
  \/ \E r \in RunIds : IOFails(r)

\* a started thread keeps being scheduled until work returns or raises
SpecLive == InitLive /\ [][NextLive]_vars /\ \A r \in RunIds : WF_vars(Worker(r))

-----------------------------------------------------------------------------
(* Copies requested while copies are running: a project with one file of    *)
(* two chunks, with or without a directory that cannot be listed, no        *)
(* session loaded.                                                          *)

OverlapBase ==
  "/r" :> DirEntry @@ "/r/P" :> DirEntry @@ "/r/P/f" :> FileEntry("abc")
  @@ "/srv" :> DirEntry

OverlapTrees ==
  { OverlapBase,
    OverlapBase @@ "/r/P/E" :> LockedDir @@ "/r/P/E/h" :> FileEntry("d") }

InitOverlap ==
  /\ fs \in OverlapTrees
  /\ log = <<>>
  /\ runs = [r \in RunIds |-> IdleRun]
  /\ faults = 0
  /\ settings = [raw_root |-> "/r", server_roots_by_project |-> <<>>]
  /\ current_project = "P"
  /\ current_session_path = ""
  /\ store = <<>>
  /\ rec_tab = Loaded(store, "", "/r")

\* the copy button, pressed at any time
RequestOverlap ==
  \E r \in RunIds :
    /\ NextRun(r)
    /\ CopyToServer(r, "/srv")

NextOverlap ==
  \/ RequestOverlap
  \/ \E r \in RunIds : SyncStart(r)
  \/ \E r \in RunIds : WalkDir(r)
  \/ \E r \in RunIds : CheckFile(r)
  \/ \E r \in RunIds : OpenFiles(r)
  \/ \E r \in RunIds : CopyChunk(r)
  \/ \E r \in RunIds : CopyDone(r)
  \/ \E r \in RunIds : LoadMeta(r)

SpecOverlap == InitOverlap /\ [][NextOverlap]_vars

-----------------------------------------------------------------------------
(* A server root that holds more than the source: files and a directory of  *)
(* its own, and what earlier runs copied of entries the user removes from   *)
(* the source between two runs.                                             *)

AdditiveTree ==
  "/r" :> DirEntry @@ "/r/P" :> DirEntry
  @@ "/r/P/n" :> At(FileEntry("d"), 1)
  @@ "/r/P/D" :> At(DirEntry, 2) @@ "/r/P/D/x" :> FileEntry("ab")
  @@ "/srv" :> DirEntry @@ "/srv/P" :> DirEntry
  @@ "/srv/P/old" :> FileEntry("zz")
  @@ "/srv/P/X" :> DirEntry @@ "/srv/P/X/y" :> FileEntry("q")

InitAdditive ==
  /\ fs = AdditiveTree
  /\ log = <<>>
  /\ runs = [r \in RunIds |-> IdleRun]
  /\ faults = 0
  /\ settings = [raw_root |-> "/r", server_roots_by_project |-> <<>>]
  /\ current_project = "P"
  /\ current_session_path = ""
  /\ store = <<>>
  /\ rec_tab = Loaded(store, "", "/r")

\* the user removes a file or a directory with all it holds from the source
\* project while no copy is running
RemoveSource ==
  \E p \in {"/r/P/n", "/r/P/D", "/r/P/D/x"} :
    /\ p \in DOMAIN fs
    /\ \A q \in RunIds : ~Active(q)
    /\ fs' = [k \in {j \in DOMAIN fs : j # p /\ ~StartsWith(j, p \o "/")} |-> fs[k]]
    /\ UNCHANGED <<log, runs, faults, settings, current_project,
                   current_session_path, store, rec_tab>>

NextAdditive ==
  \/ Request
  \/ RemoveSource
  \/ \E r \in RunIds : SyncStart(r)
  \/ \E r \in RunIds : WalkDir(r)
  \/ \E r \in RunIds : CheckFile(r)
  \/ \E r \in RunIds : OpenFiles(r)
  \/ \E r \in RunIds : CopyChunk(r)
  \/ \E r \in RunIds : CopyDone(r)
  \/ \E r \in RunIds : LoadMeta(r)

SpecAdditive == InitAdditive /\ [][NextAdditive]_vars

-----------------------------------------------------------------------------
(* The window at work: a project P with session S, a project Q with session *)
(* U, a second raw root, and the user free to load a session, to save from  *)
(* the recording tab, to choose a raw root and to press the copy button     *)
(* while copies are running.                                                *)

DeskTree ==
  "/r" :> DirEntry @@ "/r/P" :> DirEntry @@ "/r/P/A" :> DirEntry
  @@ "/r/P/A/S" :> DirEntry @@ "/r/P/A/S/f" :> FileEntry("a")
  @@ "/r/Q" :> DirEntry @@ "/r/Q/B" :> DirEntry @@ "/r/Q/B/U" :> DirEntry
  @@ "/r/Q/B/U/g" :> FileEntry("b")
  @@ "/q" :> DirEntry @@ "/q/P" :> DirEntry
  @@ "/srv" :> DirEntry

SessionU ==
  [Project |-> "Q", Animal |-> "B", Session |-> "U", Comments |-> "",
   file_list |-> <<Record("/r/Q/B/U/g", 1)>>]

DeskStore ==
  "/r/P/A/S" :> [SessionS EXCEPT !.file_list = <<Record("/r/P/A/S/f", 1)>>]
  @@ "/r/Q/B/U" :> SessionU

InitDesk ==
  /\ fs = DeskTree
  /\ log = <<>>
  /\ runs = [r \in RunIds |-> IdleRun]
  /\ faults = 0
  /\ settings = [raw_root |-> "/r", server_roots_by_project |-> <<>>]
  /\ current_project = "P"
  /\ current_session_path = "/r/P/A/S"
  /\ store = DeskStore
  /\ rec_tab = Loaded(store, "/r/P/A/S", "/r")

\* the sessions loaded from the navigation tree so far
Clicks == Len(SelectSeq(log, LAMBDA l : l.run = 0))

\* mutant of line 91: work() called in _copy_to_server itself
InHandler_Inline(r) == Active(r)

\* the handler of run r's request is still running in the interactive
\* context: never, since run_in_thread(work) of line 91 starts the worker and
\* returns
InHandler(r) == FALSE

\* the interactive context takes the next event
UiFree == \A r \in RunIds : ~InHandler(r)

UserLoad ==
  \E path \in DOMAIN DeskStore :
    /\ UiFree
    /\ Clicks < MaxClicks
    /\ path # current_session_path
    /\ LoadSelectedSession(path)

UserSave ==
  /\ UiFree
  /\ \/ SaveComments("c")
     \/ SaveAll

UserRoot ==
  \E d \in RawRoots :
    /\ UiFree
    /\ d # settings.raw_root
    /\ ChooseRoot(d)

\* the copy button, whatever the workers are doing
RequestDesk ==
  \E r \in RunIds :
    /\ UiFree
    /\ NextRun(r)
    /\ CopyToServer(r, "/srv")

NextDesk ==
  \/ RequestDesk
  \/ UserLoad
  \/ UserSave
  \/ \E r \in RunIds : SyncStart(r)
  \/ \E r \in RunIds : WalkDir(r)
  \/ \E r \in RunIds : CheckFile(r)
  \/ \E r \in RunIds : OpenFiles(r)
  \/ \E r \in RunIds : CopyChunk(r)
  \/ \E r \in RunIds : CopyDone(r)
  \/ \E r \in RunIds : LoadMeta(r)
  \/ \E r \in RunIds : Reconcile(r)
  \/ \E r \in RunIds : SaveMeta(r)

SpecDesk == InitDesk /\ [][NextDesk]_vars

\* the same window with one copy at a time and the user loading sessions and
\* choosing raw roots, before, during and after a copy
NextSwitch ==
  \/ Request
  \/ UserLoad
  \/ UserRoot
  \/ \E r \in RunIds : SyncStart(r)
  \/ \E r \in RunIds : WalkDir(r)
  \/ \E r \in RunIds : CheckFile(r)
  \/ \E r \in RunIds : OpenFiles(r)
  \/ \E r \in RunIds : CopyChunk(r)
  \/ \E r \in RunIds : CopyDone(r)
  \/ \E r \in RunIds : LoadMeta(r)
  \/ \E r \in RunIds : Reconcile(r)
  \/ \E r \in RunIds : SaveMeta(r)

SpecSwitch == InitDesk /\ [][NextSwitch]_vars

-----------------------------------------------------------------------------
(* Claims about the mirror *)

Returned(r) == runs[r].pc \in {"reconcile", "save", "done"}

\* no copy was requested after run r
Latest(r) == \A q \in RunIds : q > r => runs[q].pc = "idle"

\* run r is in the loop of line 52 with the result of its last call of
\* copy_with_progress in hand
InLoop(r) == runs[r].pc \in {"files", "walk"}

\* run r follows a completed run to the same place, and no stat fails in it
Repeats(r) ==
  /\ r > 1
  /\ runs[r].pc # "idle"
  /\ Returned(r - 1)
  /\ runs[r].project_dir = runs[r - 1].project_dir
  /\ runs[r].server_dir = runs[r - 1].server_dir
  /\ runs[r].fault = <<>>

\* C1 (idempotence): a run that follows a completed run of the same project
\* to the same server root, nothing changed in between, copies no file: it
\* never opens a destination, writes nothing, logs no progress line and no
\* "Copied to server" line, only "Already on server" (and the closing line).
C1_Idempotent ==
  \A r \in RunIds :
    Repeats(r) =>
      /\ \A i \in DOMAIN log :
           log[i].run = r => log[i].kind \in {"already", "finished"}
      /\ runs[r].pc \notin {"open", "copy", "failed"}
      /\ ~runs[r].ret.performed
      /\ Latest(r) => fs = runs[r].fs0

C1_Witness ==
  \E r \in RunIds :
    /\ Repeats(r)
    /\ runs[r].pc = "done"
    /\ \E i \in DOMAIN log : log[i].run = r - 1 /\ log[i].kind = "copied"
    /\ Len(SelectSeq(log, LAMBDA l : l.run = r /\ l.kind = "already")) = 3

\* the files of the source project and where the mirror puts them
SourceFiles(r) ==
  {p \in DOMAIN fs : StartsWith(p, runs[r].project_dir \o "/") /\ fs[p].kind = "file"}

Mirror(r, p) ==
  Join(Join(runs[r].server_dir, Basename(runs[r].project_dir)),
       Relpath(p, runs[r].project_dir))

\* C2 (completeness): once sync_project_to_server has returned without error,
\* every file of the source tree has a file of the same size at its mirrored
\* path.
C2_Complete ==
  \A r \in RunIds :
    Returned(r) =>
      \A p \in SourceFiles(r) :
        /\ IsFile(fs, Mirror(r, p))
        /\ GetSize(fs, Mirror(r, p)) = GetSize(fs, p)

\* C3 (change detection): every decision _needs_copy has taken is true when
\* the destination does not exist, true when the sizes differ, true when a
\* stat failed, and false exactly when the destination exists with the
\* source's size, whatever it holds.
C3_NeedsCopy ==
  \A r \in RunIds :
    runs[r].nc # <<>> =>
      LET c == runs[r].nc[1]
          sized == c.src # StatError /\ c.dst # StatError
      IN /\ ~c.exists => c.need
         /\ (c.exists /\ sized /\ c.src # c.dst) => c.need
         /\ ~sized => c.need
         /\ ~c.need <=> (c.exists /\ sized /\ c.src = c.dst)

C3_Witness ==
  \E r \in RunIds :
    /\ runs[r].fault # <<>>
    /\ runs[r].fault[1].kind = "stat"
    /\ runs[r].nc # <<>>
    /\ ~runs[r].nc[1].need
    /\ runs[r].nc[1].before # "absent"
    /\ runs[r].nc[1].before # fs[runs[r].src].data

\* the last decision of run r found the destination there with the source's
\* size: change detection says that no copy is needed
SameSize(r) ==
  /\ runs[r].nc # <<>>
  /\ runs[r].nc[1].exists
  /\ runs[r].nc[1].src # StatError
  /\ runs[r].nc[1].src = runs[r].nc[1].dst

\* C4 (skip leaves the destination alone): when the destination exists with
\* the source's size, copy_with_progress returns (False, 0), never opens the
\* destination, whose content stays what it was, and the next line logged is
\* the file's "Already on server" line, not a progress line.
C4_SkipUntouched ==
  \A r \in RunIds :
    SameSize(r) =>
      /\ runs[r].pc \notin {"open", "copy"}
      /\ InLoop(r) =>
           LET mine == LinesOf(r)
           IN /\ runs[r].ret = [performed |-> FALSE, bps |-> "zero"]
              /\ IsFile(fs, runs[r].dst)
              /\ fs[runs[r].dst].data = runs[r].nc[1].before
              /\ mine # <<>>
              /\ mine[Len(mine)] =
                   Line(r, "already", Relpath(runs[r].dst, runs[r].server_dir), 0, 0)
              /\ Len(mine) > 1 => mine[Len(mine) - 1].kind # "progress"

C4_Witness ==
  \E r \in RunIds :
    /\ SameSize(r)
    /\ InLoop(r)
    /\ runs[r].nc[1].before = "xyz"
    /\ fs[runs[r].src].data = "abc"
    /\ fs[runs[r].dst].data = "xyz"

RECURSIVE Concat(_)
Concat(chunks) == IF chunks = <<>> THEN "" ELSE Head(chunks) \o Concat(Tail(chunks))

\* C5 (faithful copy): when copy_with_progress has returned performed=True,
\* the destination holds exactly the source's content: the chunks, each
\* non-empty and at most COPY_CHUNK_BYTES long, were written in the order
\* read, they add up to the whole source, and nothing of what the
\* destination held before is left.
C5_FaithfulCopy ==
  \A r \in RunIds :
    (InLoop(r) /\ runs[r].ret.performed) =>
      /\ IsFile(fs, runs[r].dst)
      /\ fs[runs[r].dst].data = fs[runs[r].src].data
      /\ Concat(runs[r].chunks) = fs[runs[r].src].data
      /\ \A i \in DOMAIN runs[r].chunks :
           /\ runs[r].chunks[i] # ""
           /\ Len(runs[r].chunks[i]) * BlockBytes <= COPY_CHUNK_BYTES
      /\ runs[r].copied = GetSize(fs, runs[r].src)

C5_Witness ==
  \E r \in RunIds :
    /\ InLoop(r)
    /\ runs[r].ret.performed
    /\ runs[r].nc[1].before = "vwxyz"
    /\ fs[runs[r].dst].data = "abc"
    /\ Len(runs[r].chunks) = 2

\* C6 (abort on the first failure): a run struck by a failure of open, read
\* or write has ended with the error; it is where the failure found it (the
\* failing file still the head of its pending files, no later file examined),
\* and it has logged nothing since: no summary line for the failing file or a
\* later one, no closing line, and no metadata was loaded or saved by it.
C6_AbortOnFailure ==
  \A r \in RunIds :
    (runs[r].fault # <<>> /\ runs[r].fault[1].kind = "io") =>
      /\ runs[r].pc = "failed"
      /\ runs[r].src = runs[r].fault[1].src
      /\ runs[r].files # <<>>
      /\ Join(runs[r].root, Head(runs[r].files)) = runs[r].src
      /\ Len(LinesOf(r)) = runs[r].fault[1].lines
      /\ \A i \in DOMAIN log :
           log[i].run = r =>
             /\ log[i].kind # "finished"
             /\ log[i].kind \in {"already", "copied"} =>
                  log[i].name # Relpath(runs[r].dst, runs[r].server_dir)
      /\ runs[r].sess_path = ""

C6_Witness ==
  \E r \in RunIds :
    /\ runs[r].fault # <<>>
    /\ runs[r].fault[1].kind = "io"
    /\ runs[r].copied > 0
    /\ Len(runs[r].files) > 1
    /\ r < MaxRuns
    /\ Returned(r + 1)

\* the summary lines of run r
Summaries(r) == SelectSeq(log, LAMBDA l : l.run = r /\ l.kind \in {"copied", "already"})

\* C12 (one summary line per file): in a run that has completed there is
\* exactly one summary line for every file of the source tree and none for
\* anything else, "Copied to server at <path>" when the copy was performed
\* and "Already on server: <path>" when it was not, <path> being the
\* destination relative to the server root.
C12_OneSummaryPerFile ==
  \A r \in RunIds :
    Returned(r) =>
      LET sums == Summaries(r)
          NameOf(p) == Relpath(Mirror(r, p), runs[r].server_dir)
      IN /\ \A p \in SourceFiles(r) :
              Cardinality({i \in DOMAIN sums : sums[i].name = NameOf(p)}) = 1
         /\ \A i \in DOMAIN sums : \E p \in SourceFiles(r) : sums[i].name = NameOf(p)
         /\ Len(sums) = Len(runs[r].outcomes)
         /\ \A i \in DOMAIN sums :
              /\ sums[i].name = Relpath(runs[r].outcomes[i].dst, runs[r].server_dir)
              /\ sums[i].kind = "copied" <=> runs[r].outcomes[i].performed

\* C13 (order of a file's lines): in the lines of one run, the progress
\* lines of a file stand together, counting up chunk by chunk to the file's
\* size, and what follows the last of them is that file's "Copied" line;
\* nothing of another file comes in between, and an "Already on server"
\* line or the closing line never follows a progress line.
C13_FileLinesInOrder ==
  \A r \in RunIds :
    LET mine == LinesOf(r)
    IN \A i \in DOMAIN mine :
         /\ mine[i].kind = "progress" =>
              /\ 0 < mine[i].copied /\ mine[i].copied <= mine[i].total
              /\ (i = 1 \/ mine[i - 1].kind # "progress") =>
                   mine[i].copied <= COPY_CHUNK_BYTES
              /\ i < Len(mine) =>
                   \/ /\ mine[i + 1].kind = "progress"
                      /\ mine[i + 1].name = mine[i].name
                      /\ mine[i + 1].total = mine[i].total
                      /\ mine[i + 1].copied > mine[i].copied
                      /\ mine[i + 1].copied <= mine[i].copied + COPY_CHUNK_BYTES
                   \/ /\ mine[i + 1].kind = "copied"
                      /\ Basename(mine[i + 1].name) = mine[i].name
                      /\ mine[i].copied = mine[i].total
         /\ (mine[i].kind \in {"already", "finished"} /\ i > 1) =>
              mine[i - 1].kind # "progress"

C13_Witness ==
  \E r \in RunIds :
    LET mine == LinesOf(r)
    IN \E i \in DOMAIN mine :
         /\ i + 3 <= Len(mine)
         /\ mine[i].kind = "progress" /\ mine[i].name = "f"
         /\ mine[i + 1].kind = "progress" /\ mine[i + 1].name = "f"
         /\ mine[i + 2].kind = "copied" /\ mine[i + 2].name = "P/A/S/f"
         /\ mine[i + 3].kind = "copied" /\ mine[i + 3].name = "P/A/S/g"

\* the paths below directory d, relative to d, each with its kind
Below(f, d) ==
  {<<Relpath(p, d), f[p].kind>> : p \in {q \in DOMAIN f : StartsWith(q, d \o "/")}}

\* C14 (exact mirror structure): when the server root held no directory for
\* the project at the request, after the completed run the directories
\* (empty ones too) and files below serverRoot/projectName are, by relative
\* path, those below the source project directory, and the run has created
\* nothing anywhere else.
C14_ExactStructure ==
  \A r \in RunIds :
    (Returned(r) /\ Latest(r) /\ runs[r].dst_project \notin DOMAIN runs[r].fs0) =>
      /\ Below(fs, runs[r].dst_project) = Below(fs, runs[r].project_dir)
      /\ \A p \in DOMAIN fs \ DOMAIN runs[r].fs0 :
           p = runs[r].dst_project \/ StartsWith(p, runs[r].dst_project \o "/")

\* sync_project_to_server is running in run r
Walking(r) == runs[r].pc \in {"sync", "walk", "files", "open", "copy"}

\* the server root of run r lies inside its project directory
Inside(r) == StartsWith(runs[r].server_dir, runs[r].project_dir \o "/")

\* C15 (termination): a started sync_project_to_server returns or fails
\* after finitely many steps, whatever the tree and wherever the server
\* root lies, inside the source project directory too.
C15_Terminates ==
  \A r \in RunIds :
    Walking(r) ~> (Returned(r) \/ runs[r].pc \in {"done", "failed"})

C15_Witness ==
  \E r \in RunIds :
    /\ Inside(r)
    /\ runs[r].pc = "failed"
    /\ runs[r].fault = <<>>
    /\ Len(runs[r].outcomes) >= 3

\* run r was struck by a failure of this kind
StruckBy(r, kind) == runs[r].fault # <<>> /\ runs[r].fault[1].kind = kind

\* C16 (no silent per-file outcome): every file a run has examined has its
\* one log line: the summary line of each file copy_with_progress returned
\* for, and, for a file whose copy failed, a line logged after the failure.
C16_NoSilentOutcome ==
  \A r \in RunIds :
    /\ Len(Summaries(r)) = Len(runs[r].outcomes)
    /\ (StruckBy(r, "io") /\ runs[r].pc = "failed") =>
         Len(LinesOf(r)) > runs[r].fault[1].lines

\* the file run r is at is the one its failure struck
AtStruck(r) == runs[r].src = runs[r].fault[1].src

\* C17 (a stat failure is not fatal): when a getsize of change detection
\* has failed, the file is taken as needing a copy, a line about the failure
\* has been logged by the time the decision is taken, and the run has not
\* ended with an error at that file.
C17_StatLoggedNotFatal ==
  \A r \in RunIds :
    (StruckBy(r, "stat") /\ AtStruck(r)) =>
      /\ runs[r].nc[1].need
      /\ Len(LinesOf(r)) > runs[r].fault[1].lines
      /\ runs[r].pc # "failed"

\* C18 (a failure of copystat is not fatal): when shutil.copystat has failed
\* after the content of a file was transferred, copy_with_progress has
\* returned performed=True for that file, the next line of the run is the
\* file's "Copied to server" line, the destination holds the whole source
\* (only its times are those of the writing), and the run has gone on: it
\* has not ended with an error at that file.
C18_CopyStatNotFatal ==
  \A r \in RunIds :
    StruckBy(r, "copystat") =>
      LET mine == LinesOf(r)
          k == runs[r].fault[1].lines
          struck == runs[r].fault[1].src
      IN /\ Len(mine) > k
         /\ mine[k + 1].kind = "copied"
         /\ \E i \in DOMAIN runs[r].outcomes :
              /\ runs[r].outcomes[i].src = struck
              /\ runs[r].outcomes[i].performed
              /\ mine[k + 1].name =
                   Relpath(runs[r].outcomes[i].dst, runs[r].server_dir)
              /\ Latest(r) =>
                   /\ IsFile(fs, runs[r].outcomes[i].dst)
                   /\ fs[runs[r].outcomes[i].dst].data = fs[struck].data
                   /\ fs[runs[r].outcomes[i].dst].mtime = "now"
         /\ AtStruck(r) => runs[r].pc \notin {"open", "copy", "failed"}

C18_Witness ==
  \E r \in RunIds :
    /\ StruckBy(r, "copystat")
    /\ runs[r].fault[1].src = "/r/P/A/S/f"
    /\ runs[r].src = "/r/P/A/S/g"
    /\ runs[r].ret.performed
    /\ Returned(r)
    /\ fs["/srv/P/A/S/f"].data = "abc"

\* run r is the retry of a run that an I/O failure ended: the same project
\* to the same server root, and no failure in it
Retries(r) ==
  /\ r > 1
  /\ runs[r].pc \notin {"idle", "failed"}
  /\ StruckBy(r - 1, "io")
  /\ runs[r].project_dir = runs[r - 1].project_dir
  /\ runs[r].server_dir = runs[r - 1].server_dir
  /\ runs[r].fault = <<>>

\* the destination had the source's size when run r was requested
SizedAtRequest(r, o) ==
  /\ Exists(runs[r].fs0, o.dst)
  /\ GetSize(runs[r].fs0, o.dst) = GetSize(runs[r].fs0, o.src)

\* C19 (resume on retry): the run that follows a run ended by an I/O failure,
\* the source unchanged and no failure in it, skips exactly the files whose
\* destination already had the source's size and copies the others (the one
\* left partly written, those not reached), and when it has returned every
\* file of the source has a destination of its size.
C19_ResumeOnRetry ==
  \A r \in RunIds :
    Retries(r) =>
      /\ \A i \in DOMAIN runs[r].outcomes :
           ~runs[r].outcomes[i].performed <=> SizedAtRequest(r, runs[r].outcomes[i])
      /\ Returned(r) =>
           \A p \in SourceFiles(r) :
             /\ IsFile(fs, Mirror(r, p))
             /\ GetSize(fs, Mirror(r, p)) = GetSize(fs, p)

\* C20 (reconciliation only after the walk): the closing line of a run is
\* the last of its lines, after every summary line; it is there exactly when
\* the walk has come to its end (no directory and no file left), and only
\* then has the run a session record loaded; the inventory is rewritten only
\* after that, and no record of the store carries a server_path before a run
\* has gone through to its save.  A run that ended with an error has no
\* closing line and has loaded, rewritten and saved nothing.
C20_ReconcileAfterWalk ==
  /\ \A r \in RunIds :
       LET mine == LinesOf(r)
       IN /\ \A i \in DOMAIN mine : mine[i].kind = "finished" => i = Len(mine)
          /\ (\E i \in DOMAIN mine : mine[i].kind = "finished") <=> Returned(r)
          /\ Returned(r) => (runs[r].stack = <<>> /\ runs[r].files = <<>>)
          /\ ~Returned(r) =>
               /\ runs[r].sess_path = ""
               /\ runs[r].loaded = NoMeta
               /\ runs[r].meta = NoMeta
          /\ runs[r].meta # runs[r].loaded => runs[r].pc \in {"save", "done"}
  /\ (\A q \in RunIds : runs[q].pc # "done") =>
       \A k \in DOMAIN store : \A i \in DOMAIN store[k].file_list :
         store[k].file_list[i].server_path = Absent

C20_Witness ==
  \E r \in RunIds :
    /\ r < MaxRuns
    /\ runs[r].pc = "failed"
    /\ Len(Summaries(r)) >= 1
    /\ runs[r + 1].pc = "done"
    /\ Len(Summaries(r + 1)) = 3
    /\ store["/r/P/A/S"].file_list[1].server_path = "/srv/P/A/S/f"

\* the bytes of the first j chunks
Cum(chunks, j) == Len(Concat(SubSeq(chunks, 1, j))) * BlockBytes

\* C23 (progress reporting): while a file is copied and when its copy has
\* returned, the run's lines end with one progress line per chunk written
\* (and no more), each naming the file, the bytes written so far and the
\* source size taken before the first chunk; the counts go up strictly, the
\* last is the size of what the destination holds, and the source size once
\* the copy is done.  A source of zero bytes has no progress line and still
\* its "Copied to server" line.
C23_Progress ==
  \A r \in RunIds :
    (runs[r].pc = "copy" \/ (InLoop(r) /\ runs[r].ret.performed)) =>
      LET run == runs[r]
          mine == LinesOf(r)
          n == Len(run.chunks)
          last == IF run.pc = "copy" THEN Len(mine) ELSE Len(mine) - 1
      IN /\ last >= n
         /\ \A j \in 1..n :
              mine[last - n + j] =
                Line(r, "progress", Basename(run.src), Cum(run.chunks, j), run.total)
         /\ \A j \in 1..(n - 1) :
              mine[last - n + j].copied < mine[last - n + j + 1].copied
         /\ last > n => mine[last - n].kind # "progress"
         /\ run.total = GetSize(fs, run.src)
         /\ n > 0 => mine[last].copied = Len(fs[run.dst].data) * BlockBytes
         /\ run.pc # "copy" =>
              /\ mine[Len(mine)].kind = "copied"
              /\ n > 0 => mine[last].copied = run.total
              /\ n = 0 => run.total = 0

C23_Witness ==
  \E r \in RunIds :
    LET mine == LinesOf(r)
    IN /\ InLoop(r)
       /\ runs[r].ret.performed
       /\ runs[r].src = "/r/P/A/S/g"
       /\ runs[r].chunks = <<>>
       /\ Len(mine) >= 4
       /\ mine[Len(mine)].kind = "copied"
       /\ mine[Len(mine) - 1].kind = "copied"
       /\ mine[Len(mine) - 2] = Line(r, "progress", "f", 3 * BlockBytes, 3 * BlockBytes)
       /\ mine[Len(mine) - 3] = Line(r, "progress", "f", COPY_CHUNK_BYTES, 3 * BlockBytes)

\* where the mirror of run r puts source directory d
MirrorDir(r, d) ==
  IF d = runs[r].project_dir THEN runs[r].dst_project
  ELSE Join(runs[r].dst_project, Relpath(d, runs[r].project_dir))

\* C24 (directories first): while a run walks, the destination project
\* directory exists, and so does the counterpart of every source directory
\* the walk has listed and still has to visit; the counterpart of the
\* directory whose files are being copied exists before the first of them is
\* examined, and the parent of a destination is there whenever the
\* destination is opened or written.  A directory that is already there is
\* no error: a run ends with an error of its own only at a file.
C24_DirsFirst ==
  \A r \in RunIds :
    LET run == runs[r]
    IN /\ run.pc \in {"walk", "files", "open", "copy"} =>
            /\ IsDir(fs, run.dst_project)
            /\ \A i \in DOMAIN run.stack : IsDir(fs, MirrorDir(r, run.stack[i]))
       /\ run.pc \in {"files", "open", "copy"} =>
            /\ run.dst_dir = MirrorDir(r, run.root)
            /\ IsDir(fs, run.dst_dir)
       /\ run.pc \in {"open", "copy"} =>
            /\ Dirname(run.dst) = run.dst_dir
            /\ IsDir(fs, Dirname(run.dst))
       /\ (run.pc = "failed" /\ run.fault = <<>>) =>
            (run.src \in DOMAIN fs /\ fs[run.src].kind = "link")

C24_Witness ==
  \E r \in RunIds :
    /\ r > 1
    /\ runs[r].pc = "copy"
    /\ runs[r].dst = "/srv/P/A/S/f"
    /\ "/srv/P/A/S" \in DOMAIN runs[r].fs0
    /\ "/srv/P/A/S" \notin DOMAIN runs[r - 1].fs0
    /\ runs[r].stack = <<"/r/P/E">>

\* the server root held nothing when the first copy was requested
EmptyAtFirst ==
  /\ runs[1].pc # "idle"
  /\ \A q \in DOMAIN runs[1].fs0 : ~StartsWith(q, runs[1].server_dir \o "/")

\* C26 (size implies content): with the server root empty at the first
\* request and one run at a time, whether the runs complete or are ended by
\* an I/O failure, a destination file that has the size of its source file
\* has its content, at any time.
C26_SizeImpliesContent ==
  EmptyAtFirst =>
    \A p \in SourceFiles(1) :
      (/\ IsFile(fs, Mirror(1, p))
       /\ Len(fs[Mirror(1, p)].data) = Len(fs[p].data)) =>
        fs[Mirror(1, p)].data = fs[p].data

C26_Witness ==
  /\ EmptyAtFirst
  /\ StruckBy(1, "io")
  /\ runs[1].src = "/r/P/A/S/f"
  /\ runs[1].copied = COPY_CHUNK_BYTES
  /\ runs[2].pc = "files"
  /\ runs[2].src = "/r/P/A/S/f"
  /\ runs[2].ret.performed
  /\ fs["/srv/P/A/S/f"].data = "abc"

\* the source path whose mirror destination path p is in run r
Counterpart(r, p) ==
  Join(runs[r].project_dir, Relpath(p, runs[r].dst_project))

\* destination path p had no counterpart in the source when run r was
\* requested
Orphan(r, p) ==
  /\ StartsWith(p, runs[r].dst_project \o "/")
  /\ Counterpart(r, p) \notin DOMAIN runs[r].fs0

\* C28 (the mirror is additive): what the destination project directory held
\* at the request of a run without a counterpart in the source (files and
\* directories of the server's own, copies of entries removed from the
\* source since) is there unchanged during and after the run.
C28_Additive ==
  \A r \in RunIds :
    runs[r].pc \notin {"idle", "sync"} =>
      \A p \in DOMAIN runs[r].fs0 :
        Orphan(r, p) => (p \in DOMAIN fs /\ fs[p] = runs[r].fs0[p])

C28_Witness ==
  \E r \in RunIds :
    /\ r > 1
    /\ runs[r].pc = "done"
    /\ Orphan(r, "/srv/P/D/x")
    /\ ~Orphan(r - 1, "/srv/P/D/x")
    /\ fs["/srv/P/D/x"].data = "ab"
    /\ Orphan(r, "/srv/P/X/y")
    /\ runs[r].outcomes # <<>>

-----------------------------------------------------------------------------
(* Claims about the annotation of the inventory *)

\* run r has just annotated the inventory it loaded: nothing has happened
\* since the loop of lines 86-88
Annotating(r) == runs[r].pc = "save"

\* the path lies under the session's raw directory
Under(path, session_dir) == StartsWith(path, session_dir \o "/")

\* the path with its session directory prefix replaced
Candidate(path, session_dir, server_session) ==
  server_session \o SubSeq(path, Len(session_dir) + 1, Len(path))

\* C7 (reconciliation): every record whose path lies under the session's raw
\* directory gets as server_path its candidate (the path with that prefix
\* replaced by the server session directory) if something exists there, and
\* the empty string if not.
C7_ServerPath ==
  \A r \in RunIds :
    Annotating(r) =>
      \A i \in DOMAIN runs[r].meta.file_list :
        LET rec == runs[r].meta.file_list[i]
            cand == Candidate(rec.path, runs[r].session_dir, runs[r].server_session)
        IN Under(rec.path, runs[r].session_dir) =>
             rec.server_path = IF Exists(fs, cand) THEN cand ELSE ""

\* the inventory with every server_path forgotten
Forget(file_list) ==
  [i \in DOMAIN file_list |-> [file_list[i] EXCEPT !.server_path = Absent]]

\* C8 (re-derivation): what a reconciliation leaves in server_path is what it
\* would leave in an inventory that was never annotated: the values of an
\* earlier reconciliation, for another server root, count for nothing and
\* none of them is kept.
C8_Rederived ==
  \A r \in RunIds :
    Annotating(r) =>
      /\ runs[r].meta.file_list =
           Annotate(fs, Forget(runs[r].loaded.file_list), runs[r].session_dir,
                    runs[r].server_session)
      /\ \A i \in DOMAIN runs[r].meta.file_list :
           LET old == runs[r].loaded.file_list[i].server_path
               new == runs[r].meta.file_list[i].server_path
           IN /\ new # Absent
              /\ (new # "" /\ new = old) => Exists(fs, new)
              /\ (new # "" /\ ~StartsWith(new, runs[r].server_dir \o "/")) =>
                   new = runs[r].meta.file_list[i].path

C8_Witness ==
  \E r \in RunIds :
    /\ r > 1
    /\ Annotating(r)
    /\ runs[r].server_dir # runs[r - 1].server_dir
    /\ runs[r].loaded.file_list[1].server_path = "/srv/P/A/S/f"
    /\ runs[r].meta.file_list[1].server_path = "/srv2/P/A/S/f"
    /\ runs[r].loaded.file_list[3].server_path = "/srv/P/A/S/gone"
    /\ runs[r].meta.file_list[3].server_path = ""

\* C9 (paths outside the session directory): a record whose path does not
\* start with the session's raw directory gets the empty string as
\* server_path.
C9_OutsideEmpty ==
  \A r \in RunIds :
    Annotating(r) =>
      \A i \in DOMAIN runs[r].meta.file_list :
        ~StartsWith(runs[r].meta.file_list[i].path, runs[r].session_dir) =>
          runs[r].meta.file_list[i].server_path = ""

Saved(r) == runs[r].pc = "done" /\ runs[r].sess_path # "" /\ Latest(r)

\* a record with the server_path of its inventory records put aside
SansServerPath(meta) ==
  [meta EXCEPT !.file_list = [i \in DOMAIN @ |-> [@[i] EXCEPT !.server_path = Absent]]]

\* C11 (frame of the reconciliation): the record saved by the completion
\* routine is the record it loaded in every field but the server_path of the
\* inventory records: path, size, the other fields, and the number and order
\* of the records are what was loaded.
C11_OnlyServerPath ==
  \A r \in RunIds :
    Saved(r) =>
      /\ runs[r].sess_path \in DOMAIN store
      /\ SansServerPath(store[runs[r].sess_path]) = SansServerPath(runs[r].loaded)
      /\ DOMAIN store = {runs[r].sess_path}

C11_Witness ==
  \E r \in RunIds :
    /\ Saved(r)
    /\ Len(store[runs[r].sess_path].file_list) = 4
    /\ store[runs[r].sess_path] # runs[r].loaded
    /\ store[runs[r].sess_path].file_list[1].server_path \in
         {"/srv/P/A/S/f", "/srv2/P/A/S/f"}

\* C21 (an interrupted reconciliation leaves the store alone): from the load
\* of the session record up to the call of the save, the stored record is
\* the one that was loaded; the rewritten server_path values are in the
\* worker's memory only, so a task that stops there has changed nothing.
C21_StoreUntouched ==
  \A r \in RunIds :
    runs[r].pc \in {"reconcile", "save"} =>
      /\ runs[r].sess_path \in DOMAIN store
      /\ store[runs[r].sess_path] = runs[r].loaded

C21_Witness ==
  \E r \in RunIds :
    /\ runs[r].pc = "save"
    /\ runs[r].meta.file_list[1].server_path = "/srv/P/A/S/f"
    /\ store[runs[r].sess_path].file_list[1].server_path = "/mnt/P/A/S/f"

-----------------------------------------------------------------------------
(* Claims about the window at work *)

Overlapped(r) == runs[r].asked.busy # {}

\* C25 (no mutual exclusion between runs): the copy button starts a run
\* whatever the other runs are doing, as long as a run is left to start, so
\* two runs can be writing the same destination file at once.
C25_NoMutex ==
  (\E r \in RunIds : runs[r].pc = "idle") => ENABLED RequestOverlap

C25_Witness ==
  \E r, q \in RunIds :
    /\ r # q
    /\ Overlapped(q)
    /\ runs[r].pc = "copy"
    /\ runs[q].pc = "copy"
    /\ runs[r].dst = runs[q].dst
    /\ runs[r].copied > runs[q].copied

\* C27 (overlapping runs converge): when runs that overlapped have all
\* finished (none failed), every file of the source has a destination with
\* the source's content.
C27_Converge ==
  \A r \in RunIds :
    (Overlapped(r) /\ \A q \in RunIds : runs[q].pc \in {"idle", "done"}) =>
      \A p \in SourceFiles(r) :
        /\ IsFile(fs, Mirror(r, p))
        /\ fs[Mirror(r, p)].data = fs[p].data

\* C29 (the reconciled session is the one of the request): the session whose
\* record the worker of run r loads, rewrites and saves is the session that
\* was current at the request, its session directory is built from the raw
\* root of the request, and the session belongs to the mirrored project.
C29_SessionOfRequest ==
  \A r \in RunIds :
    runs[r].sess_path # "" =>
      /\ runs[r].sess_path = runs[r].asked.session_path
      /\ runs[r].session_dir =
           Join(Join(Join(runs[r].asked.raw_root, runs[r].proj),
                     runs[r].loaded.Animal), runs[r].loaded.Session)
      /\ runs[r].loaded.Project = runs[r].proj

\* C30 (server-path annotations are not lost by later saves): a save from the
\* recording tab (a step that writes the store and is no worker's) leaves
\* every server_path that the stored record of the session carried in the
\* record it stores.
C30_SavesKeepPaths ==
  [][(store' # store /\ runs' = runs) =>
       \A p \in DOMAIN store :
         \A i \in DOMAIN store[p].file_list :
           store[p].file_list[i].server_path # Absent =>
             /\ i \in DOMAIN store'[p].file_list
             /\ store'[p].file_list[i].server_path =
                  store[p].file_list[i].server_path]_vars

=============================================================================
